---- MODULE Spec2Model ----
(***************************************************************************)
(* Host side micro-controller interface of klippy (klippy/mcu.py).         *)
(*                                                                         *)
(* The specifications of this module share its variables:                  *)
(*   Spec         the configuration phase of an MCU session: connect,      *)
(*                create_*, build_config and the commit handshake          *)
(*   SpecSession  the shutdown handlers and the print time methods of a    *)
(*                connected session                                        *)
(*   SpecRestart  successive host sessions against the same firmware       *)
(*   SpecPins     parse_pin_extras over bounded pin descriptions           *)
(*   SpecStepper  the runtime calls of one MCU_stepper                     *)
(*   SpecHoming   a stepper and the home_finalize of its endstop           *)
(*   SpecEndstop  the runtime calls of one MCU_endstop, live and offline   *)
(*   SpecDevice   the runtime calls of an endstop, a digital output, a     *)
(*                PWM output and an ADC, as seen on their command queues   *)
(*   SpecAdc      set_minmax and query_analog_in of one MCU_adc            *)
(*   SpecHandshake    the commit handshake against a firmware that is      *)
(*                configured by finalize_config, over a fair link          *)
(*   SpecEndstopLink  one MCU_endstop against a firmware whose             *)
(*                end_stop_state messages arrive later                     *)
(***************************************************************************)
EXTENDS Integers, Sequences, FiniteSets, TLC

VARIABLES
    \* ---- MCU session, configuration phase
    conn,              \* "none" | "live" (connect) | "file" (connect_file)
    output_file_mode,  \* MCU.output_file_mode
    clock_freq,        \* MCU._clock_freq
    custom,            \* the 'custom' option of the config section (raw lines)
    num_oids,          \* MCU._num_oids
    config_cmds,       \* MCU._config_cmds
    config_crc,        \* MCU._config_crc (-1 is None)
    steppers,          \* MCU._steppers (the steppers' oids, in order)
    steppersync,       \* MCU._steppersync (<<>> is None)
    devices,           \* the device objects created so far, with their _oid
    pc,                \* "idle" | "wait" (reactor.run in _send_config) | "exit"
    sent_config,       \* _send_config's local sent_config
    config_params,     \* _send_config's local config_params (<<>> is {})
    wire,              \* commands handed to SerialLink by build_config
    builds,            \* number of build_config calls so far
    nresp,             \* `config` responses delivered to the handshake in progress
    last_msg,          \* the last `config` response delivered (<<>>: none yet)
    paced,             \* FALSE once connect_file(pace=False) replaced the
                       \* print time methods by their dummies
    print_start_clock, \* MCU._print_start_clock
    \* ---- MCU session, shutdown handling
    is_shutdown,       \* MCU.is_shutdown
    dump_debug_calls,  \* calls of serial.dump_debug()
    printer_shutdown_calls, \* calls of printer.shutdown()
    shutdown_msgs,     \* the shutdown / is_shutdown messages delivered so far
    \* ---- one MCU_stepper at run time
    st_invert_dir,     \* MCU_stepper._invert_dir
    st_sdir,           \* MCU_stepper._sdir
    st_last_move_clock,\* MCU_stepper._last_move_clock
    stepq,             \* the messages queued on the stepper's step queue
    st_calls,          \* the calls made on the stepper so far, each with
                       \* the fields it found and the messages it queued
    \* ---- endstop, digital output, PWM output and ADC at run time
    last_clock,        \* SerialLink.get_last_clock()
    budget,            \* runtime calls and clock updates still to come
    flushes,           \* calls of serial.send_flush()
    es_invert,         \* MCU_endstop._invert
    es_homing,         \* MCU_endstop._homing
    es_next_query_clock, \* MCU_endstop._next_query_clock
    es_q,              \* what the endstop sent on its command queue
    es_calls,          \* the home / is_homing calls made so far, each with
                       \* the fields it found, what it sent and returned
    do_invert,         \* MCU_digital_out._invert
    do_last_clock,     \* MCU_digital_out._last_clock
    do_last_value,     \* MCU_digital_out._last_value (-1 is None)
    do_q,              \* what the digital output sent on its command queue
    do_calls,          \* the set_digital / set_pwm calls made on it so far
    pwm_hard,          \* MCU_pwm was constructed with hard_pwm
    pwm_last_clock,    \* MCU_pwm._last_clock
    pwm_q,             \* what the PWM output sent on its command queue
    adc_report_clock,  \* MCU_adc._report_clock
    adc_q,             \* what the ADC sent on its command queue
    adc_sample_ticks,  \* MCU_adc._sample_ticks
    adc_sample_count,  \* MCU_adc._sample_count
    adc_min_sample,    \* MCU_adc._min_sample
    adc_max_sample,    \* MCU_adc._max_sample
    adc_minmax,        \* <<>>, or the arguments of the last set_minmax call
    \* ---- host restarts against the same firmware
    create_log,        \* the create_* calls of this session, with their inputs
    built,             \* <<>>, or what the session's first build_config
                       \* produced from which create_* calls
    run,               \* number of this host session (1 is the first)
    prev,              \* `built` of the session before this one
    fw_crc,            \* the crc the firmware was finalized with (-1: it is
                       \* not configured)
    \* ---- print time
    time_calls,        \* the set_print_start_time / get_print_buffer_time
                       \* calls made so far, with what they returned
    \* ---- parse_pin_extras
    pin_in,            \* the pin description handed to parse_pin_extras
    pin_can_pullup,    \* its can_pullup argument
    pin_out,           \* <<>>, or what parse_pin_extras returned
    \* ---- the firmware and the link back to the host
    fw_pos,            \* how many commands of `wire` the firmware has handled
    cfg_resp,          \* the `config` responses on their way to the host
    es_fw_pos,         \* how many commands of es_q the firmware has handled
    es_fw_homing,      \* the firmware's end stop is homing
    es_resp            \* the end_stop_state messages on their way to the
                       \* host, each with the number of end_stop_home
                       \* commands the firmware had handled when it sent it

cfgvars == <<conn, output_file_mode, clock_freq, custom, num_oids, config_cmds,
             config_crc, steppers, steppersync, devices, pc, sent_config,
             config_params, wire, builds, nresp, last_msg, paced,
             print_start_clock>>
shutvars == <<is_shutdown, dump_debug_calls, printer_shutdown_calls,
              shutdown_msgs>>
stepvars == <<st_invert_dir, st_sdir, st_last_move_clock, stepq, st_calls>>
esvars == <<es_invert, es_homing, es_next_query_clock, es_q, es_calls>>
dovars == <<do_invert, do_last_clock, do_last_value, do_q, do_calls>>
pwmvars == <<pwm_hard, pwm_last_clock, pwm_q>>
adcvars == <<adc_report_clock, adc_q, adc_sample_ticks, adc_sample_count,
             adc_min_sample, adc_max_sample, adc_minmax>>
devvars == <<last_clock, budget, flushes, esvars, dovars, pwmvars, adcvars>>
runvars == <<create_log, built, run, prev, fw_crc>>
timevars == <<time_calls>>
pinvars == <<pin_in, pin_can_pullup, pin_out>>
fwvars == <<fw_pos, cfg_resp, es_fw_pos, es_fw_homing, es_resp>>
vars == <<cfgvars, shutvars, stepvars, devvars, runvars, timevars, pinvars,
          fwvars>>

(***************************************************************************)
(* Bounds of the model                                                     *)
(***************************************************************************)
MaxOids == 2
MaxBuilds == 2
MaxResponses == 3
MaxShutdownMsgs == 4
MaxEventTime == 3
MaxTimeCalls == 2
MaxStepCalls == 3
\* CLOCK_FREQ reported by the firmware dictionary (ticks per second)
ClockFreq == 20

(***************************************************************************)
(* Strings are sequences of one-character strings                          *)
(***************************************************************************)
StartsWith(s, ch) == Len(s) > 0 /\ s[1] = ch

RECURSIVE LStrip(_)
LStrip(s) == IF StartsWith(s, " ") THEN LStrip(Tail(s)) ELSE s

RECURSIVE RStrip(_)
RStrip(s) ==
    IF Len(s) > 0 /\ s[Len(s)] = " " THEN RStrip(SubSeq(s, 1, Len(s) - 1)) ELSE s

Strip(s) == RStrip(LStrip(s))

\* str.find: the index (from 0) of the first ch in s, -1 when there is none
RECURSIVE FindFrom(_, _, _)
FindFrom(s, ch, i) ==
    IF i > Len(s) THEN -1
    ELSE IF s[i] = ch THEN i - 1
    ELSE FindFrom(s, ch, i + 1)

Find(s, ch) == FindFrom(s, ch, 1)

Xor1(a, b) == IF a = b THEN 0 ELSE 1

parse_pin_extras_no_toggle(pin, can_pullup) ==
    LET a == IF can_pullup /\ StartsWith(pin, "^")
             THEN [pin |-> Strip(Tail(pin)), pullup |-> 1, invert |-> 1]
             ELSE [pin |-> pin, pullup |-> 0, invert |-> 0]
    IN  IF StartsWith(a.pin, "!")
        THEN [pin |-> Strip(Tail(a.pin)), pullup |-> a.pullup, invert |-> 1]
        ELSE a

parse_pin_extras(pin, can_pullup) ==
    LET a == IF can_pullup /\ StartsWith(pin, "^")
             THEN [pin |-> Strip(Tail(pin)), pullup |-> 1, invert |-> 1]
             ELSE [pin |-> pin, pullup |-> 0, invert |-> 0]
    IN  IF StartsWith(a.pin, "!")
        THEN [pin |-> Strip(Tail(a.pin)), pullup |-> a.pullup,
              invert |-> Xor1(a.invert, 1)]
        ELSE a

(***************************************************************************)
(* Commands.  A command line "name oid=.. pin=.. k=v .." is the record of  *)
(* its name, its oid (-1: none), its pin names and its other arguments.    *)
(***************************************************************************)
Cmd(name, oid, pins, args) ==
    [name |-> name, oid |-> oid, pins |-> pins, args |-> args]

GetConfigCmd == Cmd("get_config", -1, <<>>, <<>>)
AllocateOidsCmd(n) == Cmd("allocate_oids", -1, <<>>, <<n>>)
FinalizeConfigCmd(crc) == Cmd("finalize_config", -1, <<>>, <<crc>>)

\* pins.mcu_to_pins / pins.map_pins: symbolic pin name -> MCU pin number
PinNumber(p) ==
    CASE p = <<"A">> -> <<"1">>
      [] p = <<"B">> -> <<"2">>
      [] p = <<"C">> -> <<"3">>
      [] p = <<"D">> -> <<"4">>
      [] p = <<"E">> -> <<"5">>
      [] OTHER -> p

\* pins.update_command: the command with its symbolic pin names replaced
update_command(c) ==
    IF c.name = "custom" THEN c
    ELSE [c EXCEPT !.pins = [i \in 1..Len(c.pins) |-> PinNumber(c.pins[i])]]

CharCode(ch) ==
    CASE ch = " " -> 1 [] ch = "#" -> 2 [] ch = "!" -> 3 [] ch = "^" -> 4
      [] ch = "a" -> 5 [] ch = "b" -> 6
      [] ch = "A" -> 11 [] ch = "B" -> 12 [] ch = "C" -> 13 [] ch = "D" -> 14
      [] ch = "E" -> 15
      [] ch = "1" -> 21 [] ch = "2" -> 22 [] ch = "3" -> 23 [] ch = "4" -> 24
      [] ch = "5" -> 25
      [] OTHER -> 30

NameCode(name) ==
    CASE name = "allocate_oids" -> 41
      [] name = "finalize_config" -> 42
      [] name = "config_stepper" -> 43
      [] name = "config_end_stop" -> 44
      [] name = "config_digital_out" -> 45
      [] name = "config_pwm_out" -> 46
      [] name = "config_soft_pwm_out" -> 47
      [] name = "config_analog_in" -> 48
      [] name = "custom" -> 49
      [] OTHER -> 50

RECURSIVE Flatten(_)
Flatten(ss) == IF ss = <<>> THEN <<>> ELSE Head(ss) \o Flatten(Tail(ss))

\* the text of a command, as the codes of its characters
CmdBytes(c) ==
    <<NameCode(c.name), c.oid + 2>>
    \o [i \in 1..Len(Flatten(c.pins)) |-> CharCode(Flatten(c.pins)[i])]
    \o [i \in 1..Len(c.args) |-> c.args[i] + 2]

\* '\n'.join(cmds)
RECURSIVE Join(_)
Join(cmds) ==
    IF cmds = <<>> THEN <<>>
    ELSE IF Len(cmds) = 1 THEN CmdBytes(cmds[1])
    ELSE CmdBytes(cmds[1]) \o <<0>> \o Join(Tail(cmds))

CrcModulus == 65521

\* zlib.crc32(text) & 0xffffffff: an order sensitive checksum of the text
RECURSIVE Checksum(_, _)
Checksum(bytes, h) ==
    IF bytes = <<>> THEN h
    ELSE Checksum(Tail(bytes), (h * 31 + Head(bytes) + 1) % CrcModulus)

Crc32(cmds) == Checksum(Join(cmds), 7)

(***************************************************************************)
(* The 'custom' option: raw lines, stripped, comments removed, blank ones   *)
(* skipped; each remaining line is a config command of its own.            *)
(***************************************************************************)
CustomLine(raw) ==
    LET line == Strip(raw)
        cpos == Find(line, "#")
    IN  IF cpos >= 0 THEN Strip(SubSeq(line, 1, cpos)) ELSE line

RECURSIVE CustomCmds(_)
CustomCmds(lines) ==
    IF lines = <<>> THEN <<>>
    ELSE LET line == CustomLine(Head(lines))
         IN  (IF line = <<>> THEN <<>> ELSE <<Cmd("custom", -1, <<line>>, <<>>)>>)
             \o CustomCmds(Tail(lines))

\* the values of the 'custom' option the model draws from
CustomInputs ==
    { <<>>,
      << <<" ", "a", " ", "#", "b">>, <<"#", "a">>, <<" ">>, <<"b">> >> }

(***************************************************************************)
(* Inputs of the create_* calls                                            *)
(***************************************************************************)
StepPin == <<"!", "A">>
DirPin == <<"B">>
EndstopPin == <<"^", "C">>
OutPins == { <<"!", "D">>, <<"D">> }
PwmPin == <<"D">>
AdcPin == <<"E">>
HardCycleInputs == {-1, 0, 5}
MinStopInterval == 0
\* the max_duration=2. default of create_digital_out and create_pwm
DefaultMaxDuration == 2

(***************************************************************************)
(* MCU session: connection and configuration phase                         *)
(***************************************************************************)
InitConfig ==
    /\ conn = "none"
    /\ output_file_mode = FALSE
    /\ clock_freq = 0
    /\ custom \in CustomInputs
    /\ num_oids = 0
    /\ config_cmds = <<>>
    /\ config_crc = -1
    /\ steppers = <<>>
    /\ steppersync = <<>>
    /\ devices = <<>>
    /\ pc = "idle"
    /\ sent_config = FALSE
    /\ config_params = <<>>
    /\ wire = <<>>
    /\ builds = 0
    /\ nresp = 0
    /\ last_msg = <<>>
    /\ paced = TRUE
    /\ print_start_clock = 0

InitShutdown ==
    /\ is_shutdown = FALSE
    /\ dump_debug_calls = 0
    /\ printer_shutdown_calls = 0
    /\ shutdown_msgs = <<>>

\* MCU.connect, once the link reports 'connected'
Connect ==
    /\ conn = "none"
    /\ conn' = "live"
    /\ clock_freq' = ClockFreq
    /\ UNCHANGED <<output_file_mode, custom, num_oids, config_cmds, config_crc,
                   steppers, steppersync, devices, pc, sent_config,
                   config_params, wire, builds, nresp, last_msg, paced,
                   print_start_clock>>
    /\ UNCHANGED <<shutvars, stepvars, devvars, runvars, timevars, pinvars,
                   fwvars>>

\* MCU.connect_file
ConnectFile(pace) ==
    /\ conn = "none"
    /\ conn' = "file"
    /\ output_file_mode' = TRUE
    /\ clock_freq' = ClockFreq
    /\ paced' = pace
    /\ UNCHANGED <<custom, num_oids, config_cmds, config_crc,
                   steppers, steppersync, devices, pc, sent_config,
                   config_params, wire, builds, nresp, last_msg,
                   print_start_clock>>
    /\ UNCHANGED <<shutvars, stepvars, devvars, runvars, timevars, pinvars,
                   fwvars>>

create_oid_stuck(n) == n

\* MCU.create_oid: the value of _num_oids after the call (the old one is returned)
create_oid(n) == n + 1

\* MCU.add_config_cmd
add_config_cmd(cmds, cmd) == Append(cmds, cmd)

init_steppersync_no_queues(count) == << [count |-> count, queues |-> <<>>] >>

\* MCU._init_steppersync: the synchroniser over the registered step queues
init_steppersync(count) == << [count |-> count, queues |-> steppers] >>

\* one entry of create_log: the create_* method called and its arguments
CreateCall(call, pins, arg) == [call |-> call, pins |-> pins, arg |-> arg]

\* The part every device constructor shares: take an oid, add the config
\* command, and (MCU_stepper only) register the stepper.
NewDevice(kind, cmd, is_stepper, input) ==
    /\ conn # "none"
    /\ pc = "idle"
    /\ num_oids < MaxOids
    /\ num_oids' = create_oid(num_oids)
    /\ config_cmds' = add_config_cmd(config_cmds, cmd)
    /\ devices' = Append(devices, [kind |-> kind, oid |-> num_oids])
    /\ steppers' = IF is_stepper THEN Append(steppers, num_oids) ELSE steppers
    /\ UNCHANGED <<conn, output_file_mode, clock_freq, custom, config_crc,
                   steppersync, pc, sent_config, config_params, wire, builds,
                   nresp, last_msg, paced, print_start_clock>>
    /\ create_log' = Append(create_log, input)
    /\ UNCHANGED <<built, run, prev, fw_crc>>
    /\ UNCHANGED <<shutvars, stepvars, devvars, timevars, pinvars, fwvars>>

\* the config command each device constructor adds
ConfigStepperCmd(oid, step_pin, dir_pin) ==
    LET step == parse_pin_extras(step_pin, FALSE)
        dir == parse_pin_extras(dir_pin, FALSE)
    IN  Cmd("config_stepper", oid, <<step.pin, dir.pin>>,
            <<MinStopInterval, step.invert>>)

ConfigEndStopCmd(oid, pin, stepper_oid) ==
    LET p == parse_pin_extras(pin, TRUE)
    IN  Cmd("config_end_stop", oid, <<p.pin>>, <<p.pullup, stepper_oid>>)

ConfigDigitalOutCmd(oid, pin, max_duration) ==
    LET p == parse_pin_extras(pin, FALSE)
    IN  Cmd("config_digital_out", oid, <<p.pin>>, <<p.invert, max_duration>>)

ConfigPwmCmd(oid, pin, cycle_ticks, max_duration, hard_pwm) ==
    Cmd(IF hard_pwm THEN "config_pwm_out" ELSE "config_soft_pwm_out",
        oid, <<pin>>, <<cycle_ticks, 0, max_duration>>)

ConfigAnalogInCmd(oid, pin) == Cmd("config_analog_in", oid, <<pin>>, <<>>)

\* MCU.create_stepper / MCU_stepper.__init__
CreateStepper ==
    NewDevice("stepper", ConfigStepperCmd(num_oids, StepPin, DirPin), TRUE,
              CreateCall("create_stepper", <<StepPin, DirPin>>, 0))

\* MCU.create_endstop / MCU_endstop.__init__
CreateEndstop ==
    \E i \in 1..Len(steppers) :
        NewDevice("endstop", ConfigEndStopCmd(num_oids, EndstopPin, steppers[i]),
                  FALSE, CreateCall("create_endstop", <<EndstopPin>>, i))

\* MCU.create_digital_out / MCU_digital_out.__init__
CreateDigitalOut ==
    \E pin \in OutPins :
        NewDevice("digital_out",
                  ConfigDigitalOutCmd(num_oids, pin,
                                      DefaultMaxDuration * clock_freq),
                  FALSE, CreateCall("create_digital_out", <<pin>>, 0))

create_pwm_kind_negative_first(hard_cycle_ticks) ==
    IF hard_cycle_ticks < 0 THEN "digital_out"
    ELSE IF hard_cycle_ticks # 0 THEN "pwm_hard"
    ELSE "pwm_soft"

\* MCU.create_pwm: which device class the call constructs
create_pwm_kind(hard_cycle_ticks) ==
    IF hard_cycle_ticks # 0 THEN "pwm_hard"
    ELSE IF hard_cycle_ticks < 0 THEN "digital_out"
    ELSE "pwm_soft"

\* MCU.create_pwm / MCU_pwm.__init__
CreatePwm ==
    \E hard_cycle_ticks \in HardCycleInputs :
        LET max_duration == DefaultMaxDuration * clock_freq
            kind == create_pwm_kind(hard_cycle_ticks)
            input == CreateCall("create_pwm", <<PwmPin>>, hard_cycle_ticks)
        IN  CASE kind = "pwm_hard" ->
                   NewDevice(kind,
                             ConfigPwmCmd(num_oids, PwmPin, hard_cycle_ticks,
                                          max_duration, TRUE),
                             FALSE, input)
              [] kind = "digital_out" ->
                   NewDevice(kind,
                             ConfigDigitalOutCmd(num_oids, PwmPin, max_duration),
                             FALSE, input)
              [] OTHER ->
                   NewDevice(kind,
                             ConfigPwmCmd(num_oids, PwmPin, clock_freq \div 10,
                                          max_duration, FALSE),
                             FALSE, input)

\* MCU.create_adc / MCU_adc.__init__
CreateAdc ==
    NewDevice("adc", ConfigAnalogInCmd(num_oids, AdcPin), FALSE,
              CreateCall("create_adc", <<AdcPin>>, 0))

build_config_crc_unresolved(cmds, n, cust) ==
    LET all == <<AllocateOidsCmd(n)>> \o cmds \o CustomCmds(cust)
        resolved == [i \in 1..Len(all) |-> update_command(all[i])]
        crc == Crc32(all)
    IN  [cmds |-> Append(resolved, FinalizeConfigCmd(crc)), crc |-> crc]

\* MCU.build_config up to the call of _send_config: the command list with
\* the custom lines appended, allocate_oids put first and the pin names
\* resolved, and the CRC of that list
build_config(cmds, n, cust) ==
    LET all == <<AllocateOidsCmd(n)>> \o cmds \o CustomCmds(cust)
        resolved == [i \in 1..Len(all) |-> update_command(all[i])]
        crc == Crc32(resolved)
    IN  [cmds |-> add_config_cmd(resolved, FinalizeConfigCmd(crc)), crc |-> crc]

\* MCU.build_config on a live session, up to the first reactor.run() of
\* _send_config
BuildConfig ==
    /\ conn = "live"
    /\ pc = "idle"
    /\ builds < MaxBuilds
    /\ LET b == build_config(config_cmds, num_oids, custom)
       IN  /\ config_cmds' = b.cmds
           /\ config_crc' = b.crc
           /\ built' = IF built = <<>>
                       THEN << [log |-> create_log, cmds |-> b.cmds,
                                crc |-> b.crc, devices |-> devices] >>
                       ELSE built
    /\ builds' = builds + 1
    /\ config_params' = <<>>
    /\ sent_config' = FALSE
    /\ nresp' = 0
    /\ wire' = Append(wire, GetConfigCmd)
    /\ pc' = "wait"
    /\ UNCHANGED <<conn, output_file_mode, clock_freq, custom, num_oids,
                   steppers, steppersync, devices, last_msg, paced,
                   print_start_clock>>
    /\ UNCHANGED <<create_log, run, prev, fw_crc>>
    /\ UNCHANGED <<shutvars, stepvars, devvars, timevars, pinvars, fwvars>>

\* build_config after connect_file: dummy_build_config
BuildConfigFile ==
    /\ conn = "file"
    /\ pc = "idle"
    /\ builds < MaxBuilds
    /\ builds' = builds + 1
    /\ steppersync' = init_steppersync(500)
    /\ UNCHANGED <<conn, output_file_mode, clock_freq, custom, num_oids,
                   config_cmds, config_crc, steppers, devices, pc, sent_config,
                   config_params, wire, nresp, last_msg, paced,
                   print_start_clock>>
    /\ UNCHANGED <<shutvars, stepvars, devvars, runvars, timevars, pinvars,
                   fwvars>>

\* the move_count values a `config` response may carry
MoveCounts == {4, 16}

\* the crc values a `config` response may carry
CrcInputs == {config_crc, (config_crc + 1) % CrcModulus}

send_config_cmds_skip_first(w, cmds) == w \o Tail(cmds)

crc_mismatch_ignored(host_crc, reported_crc) == FALSE

send_config_cmds_without_last(w, cmds) == w \o SubSeq(cmds, 1, Len(cmds) - 1)

\* MCU._send_config: "for c in self._config_cmds: self.send(...)"
send_config_cmds(w, cmds) == w \o cmds

\* MCU._send_config: the test "self._config_crc != config_params['crc']"
crc_mismatch(host_crc, reported_crc) == host_crc # reported_crc

config_wanted_always(params) == TRUE

\* MCU._send_config: the test "if not config_params['is_config']"
config_wanted(params) == ~params.is_config

\* MCU._send_config: handle_get_config on a `config` response, and the body
\* of the while loop that runs when the handler ends the reactor
HandleGetConfig(params) ==
    /\ pc = "wait"
    /\ nresp < MaxResponses
    /\ last_msg' = <<params>>
    /\ LET done == ~sent_config \/ params.is_config
       IN  IF ~done
           THEN /\ config_params' = <<params>>
                /\ nresp' = nresp + 1
                /\ UNCHANGED <<pc, sent_config, wire, steppersync>>
           ELSE IF config_wanted(params)
           THEN /\ wire' = Append(send_config_cmds(wire, config_cmds),
                                   GetConfigCmd)
                /\ config_params' = <<>>
                /\ sent_config' = TRUE
                /\ nresp' = nresp + 1
                /\ UNCHANGED <<pc, steppersync>>
           ELSE IF crc_mismatch(config_crc, params.crc)
           THEN /\ pc' = "exit"
                /\ config_params' = <<params>>
                /\ nresp' = nresp + 1
                /\ UNCHANGED <<sent_config, wire, steppersync>>
           ELSE \* _send_config returns: its locals are gone
                /\ pc' = "idle"
                /\ steppersync' = init_steppersync(params.move_count)
                /\ config_params' = <<>>
                /\ sent_config' = FALSE
                /\ nresp' = 0
                /\ UNCHANGED wire
    /\ UNCHANGED <<conn, output_file_mode, clock_freq, custom, num_oids,
                   config_cmds, config_crc, steppers, devices, builds, paced,
                   print_start_clock>>
    /\ UNCHANGED <<shutvars, stepvars, devvars, timevars, pinvars>>
    /\ UNCHANGED <<create_log, built, run, prev>>

\* the `config` responses of the firmware: not configured (crc and
\* move_count are 0), or configured with some crc and move_count
ConfigResponses ==
    {[is_config |-> FALSE, crc |-> 0, move_count |-> 0]}
    \cup {[is_config |-> TRUE, crc |-> crc, move_count |-> move_count] :
            crc \in CrcInputs, move_count \in MoveCounts}

ConfigResponse ==
    /\ \E params \in ConfigResponses : HandleGetConfig(params)
    /\ UNCHANGED fw_crc
    /\ UNCHANGED fwvars

\* no stepper object is driven in this specification
StepperUnused ==
    /\ st_invert_dir = 0
    /\ st_sdir = -1
    /\ st_last_move_clock = 0
    /\ stepq = <<>>
    /\ st_calls = <<>>

\* MCU_adc.__init__: the sampling parameters before any set_minmax call
AdcInitSampleTicks == 0
AdcInitSampleCount == 1
AdcInitMinSample == 0
AdcInitMaxSample == 65535

\* the fields MCU_adc.__init__ sets
AdcUnused ==
    /\ adc_report_clock = 0
    /\ adc_q = <<>>
    /\ adc_sample_ticks = AdcInitSampleTicks
    /\ adc_sample_count = AdcInitSampleCount
    /\ adc_min_sample = AdcInitMinSample
    /\ adc_max_sample = AdcInitMaxSample
    /\ adc_minmax = <<>>

\* no runtime call has been made on an endstop, an output or an ADC
DevicesUnused ==
    /\ last_clock = 0
    /\ budget = 0
    /\ flushes = 0
    /\ es_invert = 0
    /\ es_homing = FALSE
    /\ es_next_query_clock = 0
    /\ es_q = <<>>
    /\ es_calls = <<>>
    /\ do_invert = 0
    /\ do_last_clock = 0
    /\ do_last_value = -1
    /\ do_q = <<>>
    /\ do_calls = <<>>
    /\ pwm_hard = TRUE
    /\ pwm_last_clock = 0
    /\ pwm_q = <<>>
    /\ AdcUnused

\* parse_pin_extras is not being examined
\* no firmware is modelled: nothing is handled and nothing comes back
FirmwareUnused ==
    /\ fw_pos = 0
    /\ cfg_resp = <<>>
    /\ es_fw_pos = 0
    /\ es_fw_homing = FALSE
    /\ es_resp = <<>>

PinsUnused ==
    /\ pin_in = <<>>
    /\ pin_can_pullup = FALSE
    /\ pin_out = <<>>

\* a first host session against a firmware that is not configured
FirstRun ==
    /\ PinsUnused
    /\ FirmwareUnused
    /\ time_calls = <<>>
    /\ create_log = <<>>
    /\ built = <<>>
    /\ run = 1
    /\ prev = <<>>
    /\ fw_crc = -1

Init == InitConfig /\ InitShutdown /\ StepperUnused /\ DevicesUnused /\ FirstRun

Next ==
    \/ Connect
    \/ \E pace \in BOOLEAN : ConnectFile(pace)
    \/ CreateStepper
    \/ CreateEndstop
    \/ CreateDigitalOut
    \/ CreatePwm
    \/ CreateAdc
    \/ BuildConfig
    \/ BuildConfigFile
    \/ ConfigResponse

Spec == Init /\ [][Next]_vars

(***************************************************************************)
(* Properties of the configuration phase (checked under Spec)              *)
(***************************************************************************)
\* a `config` response was delivered in this step
Responded == pc = "wait" /\ (nresp' # nresp \/ pc' # pc)

\* C2: on a live session the Stepper Synchroniser is constructed only in the
\* step that handles a `config` response with is_config=true whose crc
\* equals config_crc, and then with the reported move_count; a response with
\* is_config=true and another crc ends the session in the fatal exit without
\* constructing it, and nothing happens after the exit.
C2_CommitRequiresMatchingCrc ==
    /\ [][(steppersync' # steppersync /\ conn = "live") =>
            /\ Responded
            /\ last_msg'[1].is_config
            /\ last_msg'[1].crc = config_crc
            /\ steppersync' = << [count |-> last_msg'[1].move_count,
                                  queues |-> steppers] >>
            /\ pc' = "idle"]_vars
    /\ [][(Responded /\ last_msg'[1].is_config /\ last_msg'[1].crc # config_crc) =>
            /\ pc' = "exit"
            /\ steppersync' = steppersync]_vars
    /\ [][pc = "exit" => UNCHANGED vars]_vars
    /\ [](pc = "exit" /\ builds = 1 => steppersync = <<>>)

\* C2 witness: a live session configured after it sent its config commands
C2_Witness ==
    /\ conn = "live" /\ pc = "idle"
    /\ steppersync # <<>>
    /\ Len(wire) > 2
    /\ last_msg[1].is_config /\ last_msg[1].crc = config_crc

\* the config commands of the first build_config, as handed to SerialLink:
\* what lies between the two get_config of the first handshake
FirstSent == SubSeq(wire, 2, Len(wire) - 1)

\* C3: after the first build_config of a live session has sent its commands,
\* the list sent starts with the only allocate_oids, whose count is the
\* number of oids issued, ends with the only finalize_config, whose crc is
\* the CRC of the commands before it as sent, and every pin name in it is
\* resolved.
C3_SentConfigList ==
    (conn = "live" /\ builds = 1 /\ pc = "wait" /\ sent_config) =>
        LET sent == FirstSent
            n == Len(sent)
        IN  /\ wire[1] = GetConfigCmd /\ wire[Len(wire)] = GetConfigCmd
            /\ n >= 2
            /\ sent[1] = AllocateOidsCmd(num_oids)
            /\ num_oids = Len(devices)
            /\ \A i \in 2..n : sent[i].name # "allocate_oids"
            /\ sent[n].name = "finalize_config"
            /\ \A i \in 1..(n - 1) : sent[i].name # "finalize_config"
            /\ sent[n] = FinalizeConfigCmd(Crc32(SubSeq(sent, 1, n - 1)))
            /\ \A i \in 1..(n - 1) : update_command(sent[i]) = sent[i]
            /\ n = 2 + Len(devices) + Len(CustomCmds(custom))

\* C3 witness: a sent list that holds a device with a symbolic pin and a
\* custom line
C3_Witness ==
    /\ conn = "live" /\ builds = 1 /\ pc = "wait" /\ sent_config
    /\ Len(devices) = MaxOids
    /\ custom # <<>>
    /\ \E i \in 1..Len(FirstSent) : FirstSent[i].name = "config_stepper"

\* C4 (as claimed): finalize_config, if present, is the last element of
\* config_cmds, and once it is present no step adds a config command.
C4_ConfigFreeze ==
    /\ [](\A i \in 1..Len(config_cmds) :
            config_cmds[i].name = "finalize_config" => i = Len(config_cmds))
    /\ [][(\E i \in 1..Len(config_cmds) : config_cmds[i].name = "finalize_config")
            => config_cmds' = config_cmds]_vars

\* C5: the oids of the devices created so far are 0, 1, .. in the order of
\* creation, so they are pairwise distinct and fill [0, num_oids); no step
\* changes the oid of an existing device.
C5_OidsContiguous ==
    /\ [](/\ Len(devices) = num_oids
          /\ \A i \in 1..Len(devices) : devices[i].oid = i - 1
          /\ \A i, j \in 1..Len(devices) :
                i # j => devices[i].oid # devices[j].oid
          /\ {devices[i].oid : i \in 1..Len(devices)} = 0..(num_oids - 1))
    /\ [][/\ Len(devices') >= Len(devices)
          /\ \A i \in 1..Len(devices) : devices'[i] = devices[i]]_vars

\* C5 witness: devices of several kinds were created, one after build_config
C5_Witness ==
    /\ Len(devices) = MaxOids
    /\ devices[1].kind # devices[2].kind
    /\ builds > 0

\* C6 (as claimed): every `config` response with is_config=false makes the
\* host send every config command in order and then get_config again.
C6_EveryFalseResponseResends ==
    [][(Responded /\ ~last_msg'[1].is_config) =>
          wire' = wire \o config_cmds \o <<GetConfigCmd>>]_vars

\* C6 (amended): the first response with is_config=false of a handshake makes
\* the host send every config command in config_cmds order and then
\* get_config again; a later response with is_config=false sends nothing and
\* the host keeps waiting; the host leaves the wait only on a response with
\* is_config=true.
C6_FirstFalseResponseResends ==
    /\ [][(Responded /\ ~last_msg'[1].is_config) =>
            IF ~sent_config
            THEN /\ wire' = wire \o config_cmds \o <<GetConfigCmd>>
                 /\ sent_config'
                 /\ pc' = "wait"
            ELSE /\ wire' = wire
                 /\ sent_config' /\ config_cmds' = config_cmds
                 /\ pc' = "wait"]_vars
    /\ [][(pc = "wait" /\ pc' # "wait") =>
            Responded /\ last_msg'[1].is_config]_vars

\* C6 witness: a second response with is_config=false has been delivered
\* after the config commands were sent
C6_Witness ==
    /\ pc = "wait" /\ sent_config /\ nresp >= 2
    /\ ~last_msg[1].is_config
    /\ Len(config_cmds) > 2

\* a config command: anything the host hands to SerialLink but get_config
IsConfigCmd(c) == c # GetConfigCmd

\* C21: when the first `config` response of a commit handshake reports
\* is_config=true, the host sends nothing in answer to it and the handshake
\* ends at once, configured if the crc matches and in the fatal exit if not;
\* outside a handshake the only thing the host sends is the get_config that
\* opens the next one; so a session whose handshake began with
\* is_config=true has sent get_config only.
C21_NoReconfiguration ==
    /\ [][(Responded /\ nresp = 0 /\ last_msg'[1].is_config) =>
            /\ wire' = wire
            /\ builds = 1 => wire = <<GetConfigCmd>>
            /\ pc' = (IF last_msg'[1].crc = config_crc THEN "idle" ELSE "exit")
            /\ config_cmds' = config_cmds]_vars
    /\ [][(pc # "wait" /\ wire' # wire) =>
            /\ pc = "idle" /\ pc' = "wait"
            /\ wire' = Append(wire, GetConfigCmd)]_vars
    /\ []((pc = "exit" /\ ~sent_config) =>
            \A i \in (Len(wire) - nresp + 1)..Len(wire) : ~IsConfigCmd(wire[i]))

\* C21 witnesses: a handshake whose first response reported is_config=true
\* with another crc ended in the fatal exit with get_config alone on the wire
C21_Witness ==
    /\ conn = "live" /\ builds = 1 /\ pc = "exit"
    /\ ~sent_config /\ nresp = 1
    /\ last_msg[1].is_config /\ last_msg[1].crc # config_crc
    /\ Len(config_cmds) > 2
    /\ wire = <<GetConfigCmd>>

(***************************************************************************)
(* MCU session at run time: shutdown messages and the print start clock    *)
(***************************************************************************)
ShutdownMsgNames == {"shutdown", "is_shutdown"}
EventTimes == 0..MaxEventTime

HandleShutdownUnguarded(name) ==
    /\ conn = "live"
    /\ Len(shutdown_msgs) < MaxShutdownMsgs
    /\ shutdown_msgs' = Append(shutdown_msgs, name)
    /\ is_shutdown' = TRUE
    /\ dump_debug_calls' = dump_debug_calls + 1
    /\ printer_shutdown_calls' = printer_shutdown_calls + 1
    /\ UNCHANGED <<cfgvars, stepvars, devvars, runvars, timevars, pinvars,
                   fwvars>>

\* MCU.handle_shutdown, the handler connect() registers for the messages
\* `shutdown` and `is_shutdown`
HandleShutdown(name) ==
    /\ conn = "live"
    /\ Len(shutdown_msgs) < MaxShutdownMsgs
    /\ shutdown_msgs' = Append(shutdown_msgs, name)
    /\ IF is_shutdown
       THEN UNCHANGED <<is_shutdown, dump_debug_calls, printer_shutdown_calls>>
       ELSE /\ is_shutdown' = TRUE
            /\ dump_debug_calls' = dump_debug_calls + 1
            /\ printer_shutdown_calls' = printer_shutdown_calls + 1
    /\ UNCHANGED <<cfgvars, stepvars, devvars, runvars, timevars, pinvars,
                   fwvars>>

\* serial.get_clock: the MCU clock the link estimates for a host time
get_clock(eventtime) == eventtime * clock_freq

\* the last_move_end arguments of get_print_buffer_time, in seconds
LastMoveEnds == {0, 3}

set_print_start_time_kept(eventtime, start_clock) == get_clock(eventtime)

\* connect_file: dummy_set_print_start_time ("pass"); the value of
\* _print_start_clock after the call
dummy_set_print_start_time(eventtime, start_clock) == start_clock

\* connect_file: dummy_get_print_buffer_time, in milliseconds
dummy_get_print_buffer_time(eventtime, last_move_end) == 250

\* MCU.get_print_buffer_time, in milliseconds
get_print_buffer_time(eventtime, last_move_end) ==
    LET clock_diff == get_clock(eventtime) - print_start_clock
    IN  last_move_end * 1000 - (clock_diff * 1000) \div clock_freq

\* MCU.set_print_start_time, or the dummy connect_file(pace=False) installs
SetPrintStartTime(eventtime) ==
    /\ conn # "none"
    /\ Len(time_calls) < MaxTimeCalls
    /\ print_start_clock' =
          IF paced THEN get_clock(eventtime)
          ELSE dummy_set_print_start_time(eventtime, print_start_clock)
    /\ time_calls' = Append(time_calls,
                            [op |-> "set_print_start_time",
                             eventtime |-> eventtime, last_move_end |-> 0,
                             ret |-> 0])
    /\ UNCHANGED <<conn, output_file_mode, clock_freq, custom, num_oids,
                   config_cmds, config_crc, steppers, steppersync, devices, pc,
                   sent_config, config_params, wire, builds, nresp, last_msg,
                   paced>>
    /\ UNCHANGED <<shutvars, stepvars, devvars, runvars, pinvars, fwvars>>

\* MCU.get_print_buffer_time, or the dummy connect_file(pace=False) installs
GetPrintBufferTime(eventtime, last_move_end) ==
    /\ conn # "none"
    /\ Len(time_calls) < MaxTimeCalls
    /\ time_calls' =
          Append(time_calls,
                 [op |-> "get_print_buffer_time", eventtime |-> eventtime,
                  last_move_end |-> last_move_end,
                  ret |-> IF paced
                          THEN get_print_buffer_time(eventtime, last_move_end)
                          ELSE dummy_get_print_buffer_time(eventtime,
                                                           last_move_end)])
    /\ UNCHANGED <<cfgvars, shutvars, stepvars, devvars, runvars, pinvars,
                   fwvars>>

NextSession ==
    \/ Connect
    \/ \E pace \in BOOLEAN : ConnectFile(pace)
    \/ \E name \in ShutdownMsgNames : HandleShutdown(name)
    \/ \E eventtime \in EventTimes : SetPrintStartTime(eventtime)
    \/ \E eventtime \in EventTimes, last_move_end \in LastMoveEnds :
          GetPrintBufferTime(eventtime, last_move_end)

SpecSession == Init /\ [][NextSession]_vars

\* C1: as soon as one shutdown or is_shutdown message has been delivered,
\* is_shutdown is true and the debug dump and the printer shutdown have each
\* been invoked exactly once (none before the first message); a message
\* delivered to a session that is already shut down changes nothing; and
\* is_shutdown never goes back to false.
C1_ShutdownOnce ==
    /\ [](IF shutdown_msgs = <<>>
          THEN ~is_shutdown /\ dump_debug_calls = 0
               /\ printer_shutdown_calls = 0
          ELSE is_shutdown /\ dump_debug_calls = 1
               /\ printer_shutdown_calls = 1)
    /\ [][(shutdown_msgs' # shutdown_msgs /\ is_shutdown) =>
            UNCHANGED <<is_shutdown, dump_debug_calls, printer_shutdown_calls,
                        cfgvars>>]_vars
    /\ [][is_shutdown => is_shutdown']_vars

\* C1 witness: a shutdown and an is_shutdown message were both delivered
C1_Witness ==
    /\ Len(shutdown_msgs) >= 3
    /\ \E i, j \in 1..Len(shutdown_msgs) :
          shutdown_msgs[i] = "shutdown" /\ shutdown_msgs[j] = "is_shutdown"
    /\ dump_debug_calls = 1

\* C14: only set_print_start_time modifies print_start_clock; and after
\* connect_file(pace=False) even set_print_start_time leaves it at its initial
\* value 0, while get_print_buffer_time returns 0.250 s whatever its
\* arguments.
C14_PrintStartClock ==
    /\ [][print_start_clock' # print_start_clock =>
            /\ Len(time_calls') = Len(time_calls) + 1
            /\ time_calls'[Len(time_calls')].op = "set_print_start_time"]_vars
    /\ [](~paced =>
            /\ print_start_clock = 0
            /\ \A i \in 1..Len(time_calls) :
                  time_calls[i].op = "get_print_buffer_time" =>
                     time_calls[i].ret = 250)

\* after connect_file(pace=False): set_print_start_time with a later event
\* time, then get_print_buffer_time
C14_Witness ==
    /\ ~paced
    /\ Len(time_calls) = 2
    /\ time_calls[1].op = "set_print_start_time"
    /\ time_calls[1].eventtime > 0
    /\ time_calls[2].op = "get_print_buffer_time"
    /\ time_calls[2].last_move_end > 0
    /\ print_start_clock = 0

(***************************************************************************)
(* One MCU_stepper at run time                                             *)
(***************************************************************************)
\* 2**29, the width of the step clock window
Window == 536870912

\* the dir_pin values the stepper may have been created with
DirPinInputs == { <<"B">>, <<"!", "B">> }
\* the sdir and clock arguments of set_next_step_dir
Dirs == {-1, 0, 1}
StepClocks == {0, 1, Window - 1, Window, Window + 1, 2 * Window}

\* x ^ b for a bit b (Python's xor on integers)
XorBit(x, b) == IF b = 0 THEN x ELSE IF x % 2 = 0 THEN x + 1 ELSE x - 1

\* clock & 0xffffffff, for the clocks 0 <= clock < 2**31 of the model
Mask32(clock) == clock

ResetMsg(clock) ==
    [name |-> "reset_step_clock", oid |-> 0, arg |-> Mask32(clock)]
DirMsg(dir) == [name |-> "set_next_step_dir", oid |-> 0, arg |-> dir]

\* the session after connect() and create_stepper(step_pin, dir_pin), the
\* stepper being the first device created
InitStepper ==
    \E dir_pin \in DirPinInputs :
        LET dir == parse_pin_extras(dir_pin, FALSE)
        IN  /\ conn = "live"
            /\ output_file_mode = FALSE
            /\ clock_freq = ClockFreq
            /\ custom = <<>>
            /\ num_oids = 1
            /\ config_cmds = << ConfigStepperCmd(0, StepPin, dir_pin) >>
            /\ config_crc = -1
            /\ steppers = <<0>>
            /\ steppersync = <<>>
            /\ devices = << [kind |-> "stepper", oid |-> 0] >>
            /\ pc = "idle"
            /\ sent_config = FALSE
            /\ config_params = <<>>
            /\ wire = <<>>
            /\ builds = 0
            /\ nresp = 0
            /\ last_msg = <<>>
            /\ paced = TRUE
            /\ print_start_clock = 0
            /\ st_invert_dir = dir.invert
            /\ st_sdir = -1
            /\ st_last_move_clock = -Window
            /\ stepq = <<>>
            /\ st_calls = <<>>
            /\ InitShutdown
            /\ DevicesUnused
            /\ create_log =
                  << CreateCall("create_stepper", <<StepPin, dir_pin>>, 0) >>
            /\ built = <<>>
            /\ run = 1
            /\ prev = <<>>
            /\ fw_crc = -1
            /\ time_calls = <<>>
            /\ PinsUnused
            /\ FirmwareUnused

window_exceeded_strict(clock, last_move_clock) ==
    clock - last_move_clock > Window

\* MCU_stepper.set_next_step_dir: "clock - self._last_move_clock >= 2**29"
window_exceeded(clock, last_move_clock) == clock - last_move_clock >= Window

direction_always_sent(old_sdir, sdir) == FALSE

\* MCU_stepper.set_next_step_dir: "self._sdir == sdir"
direction_unchanged(old_sdir, sdir) == old_sdir = sdir

\* MCU_stepper.reset_step_clock: the step queue after the call
reset_step_clock(q, clock) == Append(q, ResetMsg(clock))

StepperCall(op, sdir, clock, q) ==
    [op |-> op, sdir |-> sdir, clock |-> clock,
     before |-> [sdir |-> st_sdir, last_move_clock |-> st_last_move_clock],
     queued |-> SubSeq(q, Len(stepq) + 1, Len(q))]

\* MCU_stepper.set_next_step_dir
SetNextStepDir(sdir, clock) ==
    /\ Len(st_calls) < MaxStepCalls
    /\ LET q1 == IF window_exceeded(clock, st_last_move_clock)
                 THEN reset_step_clock(stepq, clock)
                 ELSE stepq
           q2 == IF direction_unchanged(st_sdir, sdir)
                 THEN q1
                 ELSE Append(q1, DirMsg(XorBit(sdir, st_invert_dir)))
       IN  /\ st_last_move_clock' = clock
           /\ st_sdir' = sdir
           /\ stepq' = q2
           /\ st_calls' = Append(st_calls,
                                 StepperCall("set_next_step_dir", sdir, clock, q2))
    /\ UNCHANGED <<st_invert_dir, cfgvars, shutvars, devvars, runvars, timevars, pinvars,
                   fwvars>>

note_stepper_stop_keeps_clock(sdir, last_move_clock) ==
    [sdir |-> -1, last_move_clock |-> last_move_clock]

\* MCU_stepper.note_stepper_stop: the fields after the call
note_stepper_stop(sdir, last_move_clock) ==
    [sdir |-> -1, last_move_clock |-> -Window]

\* MCU_stepper.note_stepper_stop
NoteStepperStop ==
    /\ Len(st_calls) < MaxStepCalls
    /\ st_sdir' = note_stepper_stop(st_sdir, st_last_move_clock).sdir
    /\ st_last_move_clock' =
          note_stepper_stop(st_sdir, st_last_move_clock).last_move_clock
    /\ st_calls' = Append(st_calls, StepperCall("note_stepper_stop", -1, 0, stepq))
    /\ UNCHANGED <<st_invert_dir, stepq, cfgvars, shutvars, devvars, runvars, timevars, pinvars,
                   fwvars>>

NextStepper ==
    \/ \E sdir \in Dirs, clock \in StepClocks : SetNextStepDir(sdir, clock)
    \/ NoteStepperStop

SpecStepper == InitStepper /\ [][NextStepper]_vars

IsDirCall(k) == k.op = "set_next_step_dir"

\* C8 (as claimed): a set_next_step_dir call whose clock is at least 2^29
\* after the last move clock queues reset_step_clock(clock) before anything
\* else it queues; and set_next_step_dir(+1, 1<<29) called with
\* last_move_clock = 0 queues reset_step_clock(1<<29) and then
\* set_next_step_dir.
C8_WindowResetThenDir ==
    \A i \in 1..Len(st_calls) :
        LET k == st_calls[i]
        IN  IsDirCall(k) =>
              /\ (k.clock - k.before.last_move_clock >= Window) =>
                    /\ Len(k.queued) >= 1
                    /\ k.queued[1] = ResetMsg(k.clock)
                    /\ \A j \in 2..Len(k.queued) :
                          k.queued[j].name = "set_next_step_dir"
              /\ (k.before.last_move_clock = 0 /\ k.sdir = 1 /\ k.clock = Window) =>
                    k.queued = <<ResetMsg(Window), DirMsg(XorBit(1, st_invert_dir))>>

\* C8 (amended): a set_next_step_dir call whose clock is at least 2^29 after
\* the last move clock queues reset_step_clock(clock) before anything else
\* it queues; and set_next_step_dir(+1, 1<<29) called with
\* last_move_clock = 0 queues reset_step_clock(1<<29), followed by
\* set_next_step_dir unless the remembered direction is already +1.
C8_WindowReset ==
    \A i \in 1..Len(st_calls) :
        LET k == st_calls[i]
        IN  IsDirCall(k) =>
              /\ (k.clock - k.before.last_move_clock >= Window) =>
                    /\ Len(k.queued) >= 1
                    /\ k.queued[1] = ResetMsg(k.clock)
                    /\ \A j \in 2..Len(k.queued) :
                          k.queued[j].name = "set_next_step_dir"
              /\ (k.before.last_move_clock = 0 /\ k.sdir = 1 /\ k.clock = Window) =>
                    k.queued =
                        IF k.before.sdir = 1
                        THEN <<ResetMsg(Window)>>
                        ELSE <<ResetMsg(Window), DirMsg(XorBit(1, st_invert_dir))>>

\* C8 witness: with last_move_clock = 0 and another direction remembered,
\* set_next_step_dir(+1, 1<<29) queued the reset and then the direction
C8_Witness ==
    \E i \in 1..Len(st_calls) :
        LET k == st_calls[i]
        IN  /\ IsDirCall(k) /\ k.sdir = 1 /\ k.clock = Window
            /\ k.before.last_move_clock = 0 /\ k.before.sdir = 0
            /\ Len(k.queued) = 2
            /\ k.queued[1].name = "reset_step_clock"
            /\ k.queued[2].name = "set_next_step_dir"

\* two successive calls of set_next_step_dir with the same direction
SameDirAgain(i) ==
    /\ i > 1
    /\ IsDirCall(st_calls[i - 1]) /\ IsDirCall(st_calls[i])
    /\ st_calls[i - 1].sdir = st_calls[i].sdir

\* C9 (as claimed): a set_next_step_dir(d, c2) that follows a
\* set_next_step_dir(d, c1) queues nothing, whatever c1 and c2 are.
C9_SameDirQueuesNothing ==
    \A i \in 1..Len(st_calls) : SameDirAgain(i) => st_calls[i].queued = <<>>

\* C9 (amended): a set_next_step_dir(d, c2) that follows a
\* set_next_step_dir(d, c1) queues no set_next_step_dir command; it queues
\* nothing at all when c2 - c1 < 2^29, and exactly reset_step_clock(c2) when
\* c2 - c1 >= 2^29.
C9_SameDirQueuesNoDir ==
    \A i \in 1..Len(st_calls) :
        SameDirAgain(i) =>
            st_calls[i].queued =
                IF st_calls[i].clock - st_calls[i - 1].clock >= Window
                THEN <<ResetMsg(st_calls[i].clock)>>
                ELSE <<>>

\* C9 witness: the first call queued its direction, the same direction again
\* within the window queued nothing
C9_Witness ==
    \E i \in 2..Len(st_calls) :
        /\ SameDirAgain(i)
        /\ st_calls[i].clock # st_calls[i - 1].clock
        /\ \E j \in 1..Len(st_calls[i - 1].queued) :
              st_calls[i - 1].queued[j].name = "set_next_step_dir"
        /\ st_calls[i].queued = <<>>

\* a set_next_step_dir call made right after construction or right after a
\* note_stepper_stop
AfterStop(i) ==
    /\ IsDirCall(st_calls[i])
    /\ i = 1 \/ st_calls[i - 1].op = "note_stepper_stop"

\* C17: right after construction or note_stepper_stop() the remembered
\* direction is unknown, so the next set_next_step_dir(d, clock) queues a
\* set_next_step_dir command with wire value d XOR invert_dir, for d = +1
\* and for d = -1.
C17_DirSentAfterStop ==
    \A i \in 1..Len(st_calls) :
        (AfterStop(i) /\ st_calls[i].sdir \in {1, -1}) =>
            /\ st_calls[i].before.sdir = -1
            /\ \E j \in 1..Len(st_calls[i].queued) :
                  st_calls[i].queued[j] =
                      DirMsg(XorBit(st_calls[i].sdir, st_invert_dir))

(***************************************************************************)
(* Endstop, digital output, PWM output and ADC at run time                 *)
(***************************************************************************)
\* MCU_endstop.RETRY_QUERY, in seconds
RetryQuery == 1

\* runtime calls and clock updates explored by SpecEndstop / SpecDevice
MaxEndstopCalls == 6
MaxDeviceCalls == 3

\* the oids create_oid hands out to the five devices, in creation order
StepperOid == 0
EndstopOid == 1
DigitalOutOid == 2
PwmOid == 3
AdcOid == 4

HomeClocks == {0, 10}
RestTicksInputs == {2}
TickSteps == {10, 30}
OutClocks == {10, 20}
DigitalValues == {0, 1}
PwmValues == {127, 128}
ReportClocks == {5}
EndstopStates == {0, 1}

\* MCU.send(cmd, minclock, reqclock, cq): what SerialLink.send receives
send(q, name, args, minclock, reqclock) ==
    Append(q, [name |-> name, args |-> args, minclock |-> minclock,
               reqclock |-> reqclock])

\* the session after connect() or connect_file() and create_stepper,
\* create_endstop, create_digital_out, create_pwm and create_adc, in that
\* order; `calls` runtime calls and clock updates are to follow
InitDevices(offline, out_pin, hard_pwm, calls) ==
        LET max_duration == DefaultMaxDuration * ClockFreq
            es == parse_pin_extras(EndstopPin, TRUE)
            out == parse_pin_extras(out_pin, FALSE)
        IN  /\ conn = IF offline THEN "file" ELSE "live"
            /\ output_file_mode = offline
            /\ clock_freq = ClockFreq
            /\ custom = <<>>
            /\ num_oids = 5
            /\ config_cmds =
                 << ConfigStepperCmd(StepperOid, StepPin, DirPin),
                    ConfigEndStopCmd(EndstopOid, EndstopPin, StepperOid),
                    ConfigDigitalOutCmd(DigitalOutOid, out_pin, max_duration),
                    ConfigPwmCmd(PwmOid, PwmPin, ClockFreq \div 10,
                                 max_duration, hard_pwm),
                    ConfigAnalogInCmd(AdcOid, AdcPin) >>
            /\ config_crc = -1
            /\ steppers = <<StepperOid>>
            /\ steppersync = <<>>
            /\ devices = << [kind |-> "stepper", oid |-> StepperOid],
                            [kind |-> "endstop", oid |-> EndstopOid],
                            [kind |-> "digital_out", oid |-> DigitalOutOid],
                            [kind |-> IF hard_pwm THEN "pwm_hard" ELSE "pwm_soft",
                             oid |-> PwmOid],
                            [kind |-> "adc", oid |-> AdcOid] >>
            /\ pc = "idle"
            /\ sent_config = FALSE
            /\ config_params = <<>>
            /\ wire = <<>>
            /\ builds = 0
            /\ nresp = 0
            /\ last_msg = <<>>
            /\ paced = TRUE
            /\ print_start_clock = 0
            /\ InitShutdown
            /\ st_invert_dir = parse_pin_extras(DirPin, FALSE).invert
            /\ st_sdir = -1
            /\ st_last_move_clock = -Window
            /\ stepq = <<>>
            /\ st_calls = <<>>
            /\ last_clock = 0
            /\ budget = calls
            /\ flushes = 0
            /\ es_invert = es.invert
            /\ es_homing = FALSE
            /\ es_next_query_clock = 0
            /\ es_q = <<>>
            /\ es_calls = <<>>
            /\ do_invert = out.invert
            /\ do_last_clock = 0
            /\ do_last_value = -1
            /\ do_q = <<>>
            /\ do_calls = <<>>
            /\ pwm_hard = hard_pwm
            /\ pwm_last_clock = 0
            /\ pwm_q = <<>>
            /\ AdcUnused
            /\ create_log =
                  << CreateCall("create_stepper", <<StepPin, DirPin>>, 0),
                     CreateCall("create_endstop", <<EndstopPin>>, 1),
                     CreateCall("create_digital_out", <<out_pin>>, 0),
                     CreateCall("create_pwm", <<PwmPin>>,
                                IF hard_pwm THEN ClockFreq \div 10 ELSE 0),
                     CreateCall("create_adc", <<AdcPin>>, 0) >>
            /\ built = <<>>
            /\ run = 1
            /\ prev = <<>>
            /\ fw_crc = -1
            /\ time_calls = <<>>
            /\ PinsUnused
            /\ FirmwareUnused

\* SerialLink.get_last_clock(): the link observes a later MCU clock
Tick(d) ==
    /\ budget > 0
    /\ budget' = budget - 1
    /\ last_clock' = last_clock + d
    /\ UNCHANGED <<flushes, esvars, dovars, pwmvars, adcvars>>
    /\ UNCHANGED <<cfgvars, shutvars, stepvars, runvars, timevars, pinvars,
                   fwvars>>

\* MCU_endstop.__init__: _retry_query_ticks
retry_query_ticks == clock_freq * RetryQuery

BoolStr(b) == IF b THEN "True" ELSE "False"

\* one entry of es_calls, written when the call or message is handled
EndstopCall(op, arg, sent, ret, homing, next_query_clock) ==
    [op |-> op, arg |-> arg, last_clock |-> last_clock,
     before |-> [homing |-> es_homing,
                 next_query_clock |-> es_next_query_clock],
     after |-> [homing |-> homing, next_query_clock |-> next_query_clock],
     sent |-> sent, ret |-> ret]

\* MCU_endstop.home
Home(clock, rest_ticks) ==
    /\ budget > 0
    /\ budget' = budget - 1
    /\ LET q == send(es_q, "end_stop_home",
                     <<EndstopOid, clock, rest_ticks, Xor1(1, es_invert)>>,
                     0, clock)
           next == clock + retry_query_ticks
       IN  /\ es_homing' = TRUE
           /\ es_next_query_clock' = next
           /\ es_q' = q
           /\ es_calls' = Append(es_calls,
                                 EndstopCall("home", clock, <<q[Len(q)]>>,
                                             "None", TRUE, next))
    /\ UNCHANGED <<last_clock, flushes, es_invert, dovars, pwmvars, adcvars>>
    /\ UNCHANGED <<cfgvars, shutvars, stepvars, runvars, timevars, pinvars,
                   fwvars>>

\* MCU_endstop.home_finalize
HomeFinalize ==
    /\ budget > 0
    /\ budget' = budget - 1
    /\ flushes' = flushes + 1
    /\ st_sdir' = note_stepper_stop(st_sdir, st_last_move_clock).sdir
    /\ st_last_move_clock' =
          note_stepper_stop(st_sdir, st_last_move_clock).last_move_clock
    /\ st_calls' = Append(st_calls,
                          StepperCall("note_stepper_stop", -1, 0, stepq))
    /\ es_calls' = Append(es_calls,
                          EndstopCall("home_finalize", 0, <<>>, "None",
                                      es_homing, es_next_query_clock))
    /\ UNCHANGED <<st_invert_dir, stepq>>
    /\ UNCHANGED <<last_clock, es_invert, es_homing, es_next_query_clock, es_q,
                   dovars, pwmvars, adcvars>>
    /\ UNCHANGED <<cfgvars, shutvars, runvars, timevars, pinvars, fwvars>>

end_stop_homing_stuck(homing) == TRUE

\* MCU_endstop._handle_end_stop_state: "params['homing'] != 0"
end_stop_homing(homing) == homing # 0

\* MCU_endstop._handle_end_stop_state, on an end_stop_state message
HandleEndStopState(homing) ==
    /\ budget > 0
    /\ budget' = budget - 1
    /\ conn = "live"
    /\ es_homing' = end_stop_homing(homing)
    /\ es_calls' = Append(es_calls,
                          EndstopCall("end_stop_state", homing, <<>>, "None",
                                      end_stop_homing(homing),
                                      es_next_query_clock))
    /\ UNCHANGED <<last_clock, flushes, es_invert, es_next_query_clock, es_q,
                   dovars, pwmvars, adcvars>>
    /\ UNCHANGED <<cfgvars, shutvars, stepvars, runvars, timevars, pinvars>>

\* an end_stop_state message with some content, whatever the firmware does
EndStopState(homing) == HandleEndStopState(homing) /\ UNCHANGED fwvars

query_due_always(clock, next_query_clock) == TRUE

\* MCU_endstop.is_homing: the condition under which a query is sent
query_due(clock, next_query_clock) == clock >= next_query_clock

\* MCU_endstop.is_homing
IsHoming ==
    /\ budget > 0
    /\ budget' = budget - 1
    /\ IF ~es_homing
       THEN /\ es_calls' = Append(es_calls,
                                  EndstopCall("is_homing", 0, <<>>,
                                              BoolStr(es_homing), es_homing,
                                              es_next_query_clock))
            /\ UNCHANGED <<es_next_query_clock, es_q>>
       ELSE IF output_file_mode
       THEN /\ es_calls' = Append(es_calls,
                                  EndstopCall("is_homing", 0, <<>>, "False",
                                              es_homing, es_next_query_clock))
            /\ UNCHANGED <<es_next_query_clock, es_q>>
       ELSE IF query_due(last_clock, es_next_query_clock)
       THEN LET q == send(es_q, "end_stop_query", <<EndstopOid>>, 0, 0)
                next == last_clock + retry_query_ticks
            IN  /\ es_next_query_clock' = next
                /\ es_q' = q
                /\ es_calls' = Append(es_calls,
                                      EndstopCall("is_homing", 0, <<q[Len(q)]>>,
                                                  BoolStr(es_homing), es_homing,
                                                  next))
       ELSE /\ es_calls' = Append(es_calls,
                                  EndstopCall("is_homing", 0, <<>>,
                                              BoolStr(es_homing), es_homing,
                                              es_next_query_clock))
            /\ UNCHANGED <<es_next_query_clock, es_q>>
    /\ UNCHANGED <<last_clock, flushes, es_invert, es_homing,
                   dovars, pwmvars, adcvars>>
    /\ UNCHANGED <<cfgvars, shutvars, stepvars, runvars, timevars, pinvars,
                   fwvars>>

InitEndstop ==
    \E offline \in BOOLEAN :
        InitDevices(offline, <<"D">>, TRUE, MaxEndstopCalls)

NextEndstop ==
    \/ \E d \in TickSteps : Tick(d)
    \/ \E clock \in HomeClocks, rest_ticks \in RestTicksInputs :
          Home(clock, rest_ticks)
    \/ IsHoming
    \/ HomeFinalize
    \/ \E homing \in EndstopStates : EndStopState(homing)

SpecEndstop == InitEndstop /\ [][NextEndstop]_vars

IsQuery(k) == k.op = "is_homing" /\ k.sent # <<>>

QueryMsg ==
    [name |-> "end_stop_query", args |-> <<EndstopOid>>, minclock |-> 0,
     reqclock |-> 0]

NoHomeBetween(i, j) == \A m \in (i+1)..(j-1) : es_calls[m].op # "home"

\* every is_homing() call sends an end_stop_query exactly when the endstop is
\* homing, the session is live and the last observed clock has reached the
\* deadline; a query moves the deadline to last_clock + retry_query_ticks,
\* no query leaves it alone; offline, is_homing() returns false
QuerySentWhenDue ==
    \A i \in 1..Len(es_calls) :
        LET k == es_calls[i]
        IN  k.op = "is_homing" =>
              /\ (k.sent # <<>>) <=>
                    /\ k.before.homing
                    /\ ~output_file_mode
                    /\ k.last_clock >= k.before.next_query_clock
              /\ k.sent # <<>> =>
                    /\ k.sent = <<QueryMsg>>
                    /\ k.after.next_query_clock =
                          k.last_clock + retry_query_ticks
              /\ k.sent = <<>> =>
                    k.after.next_query_clock = k.before.next_query_clock
              /\ output_file_mode => k.ret = "False"

\* after home(clock), no query before clock + retry_query_ticks
NoQueryRightAfterHome ==
    \A i, j \in 1..Len(es_calls) :
        (/\ i < j
         /\ es_calls[i].op = "home"
         /\ IsQuery(es_calls[j])
         /\ NoHomeBetween(i, j))
        => es_calls[j].last_clock >= es_calls[i].arg + retry_query_ticks

\* C10 (as claimed): is_homing() sends an end_stop_query only when homing,
\* live and past the deadline, each query moving the deadline to
\* last_clock + retry_query_ticks; no query before clock + retry_query_ticks
\* after home(clock); and any two successive queries are at least
\* retry_query_ticks of observed clock apart.
C10_AnyTwoQueriesApart ==
    /\ QuerySentWhenDue
    /\ NoQueryRightAfterHome
    /\ \A i, j \in 1..Len(es_calls) :
          (i < j /\ IsQuery(es_calls[i]) /\ IsQuery(es_calls[j]))
          => es_calls[j].last_clock - es_calls[i].last_clock
                >= retry_query_ticks

\* C10 (amended): as above, but two successive queries are at least
\* retry_query_ticks apart only when no home() call lies between them (a
\* home() call replaces the deadline by its own clock + retry_query_ticks).
C10_QueriesApartWithinHoming ==
    /\ QuerySentWhenDue
    /\ NoQueryRightAfterHome
    /\ \A i, j \in 1..Len(es_calls) :
          (/\ i < j
           /\ IsQuery(es_calls[i])
           /\ IsQuery(es_calls[j])
           /\ NoHomeBetween(i, j))
          => es_calls[j].last_clock - es_calls[i].last_clock
                >= retry_query_ticks

\* a live session where, after home(), an is_homing() call came too early to
\* query and two later ones each sent a query
C10_Witness ==
    /\ ~output_file_mode
    /\ \E h, e, i, j \in 1..Len(es_calls) :
          /\ h < e /\ e < i /\ i < j
          /\ es_calls[h].op = "home"
          /\ es_calls[e].op = "is_homing"
          /\ es_calls[e].before.homing
          /\ es_calls[e].sent = <<>>
          /\ IsQuery(es_calls[i])
          /\ IsQuery(es_calls[j])
          /\ NoHomeBetween(h, j)

\* the homing flag is touched by home() and end_stop_state only between
\* calls m and j of es_calls
HomingRaisedBetween(m, j) ==
    \E n \in (m+1)..(j-1) :
        \/ es_calls[n].op = "home"
        \/ es_calls[n].op = "end_stop_state" /\ es_calls[n].arg # 0

\* C11: home() sets homing; every end_stop_state message sets it to
\* (params.homing != 0); nothing else changes it; live, is_homing() returns
\* the flag.  Hence once an end_stop_state with homing = 0 has been
\* delivered, every is_homing() call returns false until the next home() or
\* end_stop_state with homing != 0.
C11_HomingFlag ==
    /\ \A i \in 1..Len(es_calls) :
          LET k == es_calls[i]
          IN  /\ k.op = "home" => k.after.homing
              /\ k.op = "end_stop_state" => (k.after.homing <=> k.arg # 0)
              /\ k.op \in {"is_homing", "home_finalize"} =>
                    k.after.homing = k.before.homing
              /\ (k.op = "is_homing" /\ ~output_file_mode) =>
                    k.ret = BoolStr(k.before.homing)
              /\ i > 1 => k.before.homing = es_calls[i-1].after.homing
    /\ Len(es_calls) > 0 => es_homing = es_calls[Len(es_calls)].after.homing
    /\ \A m, j \in 1..Len(es_calls) :
          (/\ m < j
           /\ es_calls[m].op = "end_stop_state"
           /\ es_calls[m].arg = 0
           /\ es_calls[j].op = "is_homing"
           /\ ~HomingRaisedBetween(m, j))
          => es_calls[j].ret = "False"

\* live: home(), an is_homing() that returned true, an end_stop_state with
\* homing = 0, and a later is_homing() that returned false
C11_Witness ==
    /\ ~output_file_mode
    /\ \E h, i, m, j \in 1..Len(es_calls) :
          /\ h < i /\ i < m /\ m < j
          /\ es_calls[h].op = "home"
          /\ es_calls[i].op = "is_homing" /\ es_calls[i].ret = "True"
          /\ es_calls[m].op = "end_stop_state" /\ es_calls[m].arg = 0
          /\ es_calls[j].op = "is_homing" /\ es_calls[j].ret = "False"
          /\ ~HomingRaisedBetween(m, j)

(***************************************************************************)
(* The endstop against a firmware at the other end of the link             *)
(***************************************************************************)
\* the number of end_stop_home commands among the first n commands of es_q
HomesHandled(n) ==
    Cardinality({i \in 1..n : es_q[i].name = "end_stop_home"})

\* the number of home() calls made so far: the homing cycle of the host
HomingCycle == Cardinality({i \in 1..Len(es_calls) : es_calls[i].op = "home"})

\* the end_stop_state message of the firmware in its present state
EndStopReport(homing) ==
    [homing |-> IF homing THEN 1 ELSE 0, homes |-> HomesHandled(es_fw_pos)]

\* calls, clock updates and deliveries of a run against the firmware
MaxLinkCalls == 8

InitEndstopLink == InitDevices(FALSE, <<"D">>, TRUE, MaxLinkCalls)

\* the firmware handles the next command of the endstop's queue:
\* end_stop_home starts homing, end_stop_query is answered with
\* end_stop_state
FirmwareEndstop ==
    /\ es_fw_pos < Len(es_q)
    /\ es_fw_pos' = es_fw_pos + 1
    /\ LET c == es_q[es_fw_pos + 1]
       IN  IF c.name = "end_stop_home"
           THEN es_fw_homing' = TRUE /\ UNCHANGED es_resp
           ELSE /\ es_resp' = Append(es_resp, EndStopReport(es_fw_homing))
                /\ UNCHANGED es_fw_homing
    /\ UNCHANGED <<fw_pos, cfg_resp>>
    /\ UNCHANGED <<cfgvars, shutvars, stepvars, devvars, runvars, timevars,
                   pinvars>>

\* the end stop pin reaches the wanted level: the firmware stops homing and
\* reports it
EndstopTriggers ==
    /\ es_fw_homing
    /\ es_fw_homing' = FALSE
    /\ es_resp' = Append(es_resp, EndStopReport(FALSE))
    /\ UNCHANGED <<fw_pos, cfg_resp, es_fw_pos>>
    /\ UNCHANGED <<cfgvars, shutvars, stepvars, devvars, runvars, timevars,
                   pinvars>>

\* the link delivers the next end_stop_state to _handle_end_stop_state
DeliverEndStopState ==
    /\ es_resp # <<>>
    /\ HandleEndStopState(Head(es_resp).homing)
    /\ es_resp' = Tail(es_resp)
    /\ UNCHANGED <<fw_pos, cfg_resp, es_fw_pos, es_fw_homing>>

\* the planner starts a homing cycle only when is_homing() has returned
\* false for the cycle before it
HomeNextCycle(clock, rest_ticks) ==
    /\ ~es_homing
    /\ es_calls # <<>> =>
          /\ es_calls[Len(es_calls)].op = "is_homing"
          /\ es_calls[Len(es_calls)].ret = "False"
    /\ Home(clock, rest_ticks)

NextEndstopLink ==
    \/ \E d \in TickSteps : Tick(d)
    \/ \E clock \in HomeClocks, rest_ticks \in RestTicksInputs :
          HomeNextCycle(clock, rest_ticks)
    \/ IsHoming
    \/ FirmwareEndstop
    \/ EndstopTriggers
    \/ DeliverEndStopState

SpecEndstopLink == InitEndstopLink /\ [][NextEndstopLink]_vars

\* C23 (as claimed): once home() has started a homing cycle, the homing flag
\* is cleared only by an end_stop_state with homing = 0 that the firmware
\* sent after it handled that cycle's end_stop_home, so is_homing() returns
\* false in the cycle only after such a message; a message the firmware sent
\* before it handled the end_stop_home of the present cycle does not clear
\* the flag.
C23_NoStaleClear ==
    /\ [][(es_homing /\ ~es_homing') =>
            /\ es_resp # <<>>
            /\ Head(es_resp).homing = 0
            /\ Head(es_resp).homes = HomingCycle]_vars
    /\ [][(es_resp # <<>> /\ es_resp' = Tail(es_resp)
            /\ Head(es_resp).homes < HomingCycle) =>
            es_homing' = es_homing]_vars

(***************************************************************************)
(* The four device command queues together                                 *)
(***************************************************************************)
set_digital_unchained(clock, value) ==
    [q |-> send(do_q, "schedule_digital_out",
                <<DigitalOutOid, clock, Xor1(value, do_invert)>>,
                0, clock),
     last_clock |-> clock,
     last_value |-> value]

\* MCU_digital_out.set_digital: message queued and fields after the call
set_digital(clock, value) ==
    [q |-> send(do_q, "schedule_digital_out",
                <<DigitalOutOid, clock, Xor1(value, do_invert)>>,
                do_last_clock, clock),
     last_clock |-> clock,
     last_value |-> value]

\* MCU_digital_out.set_digital
SetDigital(clock, value) ==
    /\ budget > 0
    /\ budget' = budget - 1
    /\ LET r == set_digital(clock, value)
       IN  /\ do_q' = r.q
           /\ do_last_clock' = r.last_clock
           /\ do_last_value' = r.last_value
    /\ do_calls' = Append(do_calls, [op |-> "set_digital", clock |-> clock,
                                     value |-> value])
    /\ UNCHANGED <<last_clock, flushes, esvars, do_invert, pwmvars, adcvars>>
    /\ UNCHANGED <<cfgvars, shutvars, stepvars, runvars, timevars, pinvars,
                   fwvars>>

\* MCU_digital_out.set_pwm
DigitalSetPwm(clock, value) ==
    /\ budget > 0
    /\ budget' = budget - 1
    /\ LET dval == IF value > 127 THEN 1 ELSE 0
           r == set_digital(clock, dval)
       IN  /\ do_q' = r.q
           /\ do_last_clock' = r.last_clock
           /\ do_last_value' = r.last_value
    /\ do_calls' = Append(do_calls, [op |-> "set_pwm", clock |-> clock,
                                     value |-> value])
    /\ UNCHANGED <<last_clock, flushes, esvars, do_invert, pwmvars, adcvars>>
    /\ UNCHANGED <<cfgvars, shutvars, stepvars, runvars, timevars, pinvars,
                   fwvars>>

\* MCU_pwm.set_pwm
PwmSetPwm(clock, value) ==
    /\ budget > 0
    /\ budget' = budget - 1
    /\ pwm_q' = send(pwm_q,
                     IF pwm_hard THEN "schedule_pwm_out"
                                 ELSE "schedule_soft_pwm_out",
                     <<PwmOid, clock, value>>, pwm_last_clock, clock)
    /\ pwm_last_clock' = clock
    /\ UNCHANGED <<last_clock, flushes, esvars, dovars, pwm_hard, adcvars>>
    /\ UNCHANGED <<cfgvars, shutvars, stepvars, runvars, timevars, pinvars,
                   fwvars>>

\* MCU_adc.query_analog_in
QueryAnalogIn(report_clock) ==
    /\ budget > 0
    /\ budget' = budget - 1
    /\ adc_report_clock' = report_clock
    /\ LET clock == last_clock + (clock_freq * (100 + AdcOid)) \div 100
       IN  adc_q' = send(adc_q, "query_analog_in",
                         <<AdcOid, clock, adc_sample_ticks, adc_sample_count,
                           report_clock, adc_min_sample, adc_max_sample>>,
                         0, clock)
    /\ UNCHANGED <<adc_sample_ticks, adc_sample_count, adc_min_sample,
                   adc_max_sample, adc_minmax>>
    /\ UNCHANGED <<last_clock, flushes, esvars, dovars, pwmvars>>
    /\ UNCHANGED <<cfgvars, shutvars, stepvars, runvars, timevars, pinvars,
                   fwvars>>

InitDevice ==
    \E out_pin \in OutPins, hard_pwm \in BOOLEAN :
        InitDevices(FALSE, out_pin, hard_pwm, MaxDeviceCalls)

NextDevice ==
    \/ \E d \in TickSteps : Tick(d)
    \/ \E clock \in HomeClocks, rest_ticks \in RestTicksInputs :
          Home(clock, rest_ticks)
    \/ IsHoming
    \/ HomeFinalize
    \/ \E homing \in EndstopStates : EndStopState(homing)
    \/ \E clock \in OutClocks, value \in DigitalValues : SetDigital(clock, value)
    \/ \E clock \in OutClocks, value \in PwmValues : DigitalSetPwm(clock, value)
    \/ \E clock \in OutClocks, value \in PwmValues : PwmSetPwm(clock, value)
    \/ \E report_clock \in ReportClocks : QueryAnalogIn(report_clock)

SpecDevice == InitDevice /\ [][NextDevice]_vars

NonDecreasingReqclock(q) ==
    \A i \in 1..(Len(q) - 1) : q[i].reqclock <= q[i+1].reqclock

\* C7: on each device command queue (endstop, digital output, PWM, ADC) the
\* successive reqclock values handed to SerialLink are non-decreasing.
C7_ReqclockMonotonic ==
    /\ NonDecreasingReqclock(es_q)
    /\ NonDecreasingReqclock(do_q)
    /\ NonDecreasingReqclock(pwm_q)
    /\ NonDecreasingReqclock(adc_q)

\* MCU_digital_out.get_last_setting (-1 is None)
get_last_setting == do_last_value

\* the value a call on the digital output hands to set_digital
DigitalValueOf(call) ==
    IF call.op = "set_pwm" THEN (IF call.value > 127 THEN 1 ELSE 0)
    ELSE call.value

\* C19: every schedule command of the digital output and of the PWM output
\* goes to the device's own queue with reqclock = the call's clock and
\* minclock = the clock of the device's previous set call (0 for the first);
\* afterwards last_clock is the call's clock.  The digital output sends
\* value XOR invert, get_last_setting() returns the latest value set (None
\* before any), and set_pwm(clock, v) sets 1 exactly when v > 127.
C19_LastClockChaining ==
    /\ Len(do_q) = Len(do_calls)
    /\ \A i \in 1..Len(do_q) :
          /\ do_q[i].name = "schedule_digital_out"
          /\ do_q[i].args = <<DigitalOutOid, do_calls[i].clock,
                              Xor1(DigitalValueOf(do_calls[i]), do_invert)>>
          /\ do_q[i].reqclock = do_calls[i].clock
          /\ do_q[i].minclock = IF i = 1 THEN 0 ELSE do_calls[i - 1].clock
    /\ do_last_clock = IF do_calls = <<>> THEN 0
                       ELSE do_calls[Len(do_calls)].clock
    /\ get_last_setting = IF do_calls = <<>> THEN -1
                          ELSE DigitalValueOf(do_calls[Len(do_calls)])
    /\ \A i \in 1..Len(pwm_q) :
          /\ pwm_q[i].name = IF pwm_hard THEN "schedule_pwm_out"
                             ELSE "schedule_soft_pwm_out"
          /\ pwm_q[i].args[1] = PwmOid
          /\ pwm_q[i].reqclock = pwm_q[i].args[2]
          /\ pwm_q[i].minclock = IF i = 1 THEN 0 ELSE pwm_q[i - 1].args[2]
    /\ pwm_last_clock = IF pwm_q = <<>> THEN 0
                        ELSE pwm_q[Len(pwm_q)].args[2]
    /\ \A i \in 1..Len(es_q) : es_q[i].args[1] = EndstopOid
    /\ \A i \in 1..Len(adc_q) : adc_q[i].args[1] = AdcOid

\* an inverted digital output set by set_digital and then by set_pwm(128)
\* at an earlier clock, and a PWM output set once
C19_Witness ==
    /\ do_invert = 1
    /\ Len(do_q) = 2
    /\ do_calls[1].op = "set_digital"
    /\ do_calls[2].op = "set_pwm" /\ do_calls[2].value = 128
    /\ do_q[2].minclock > do_q[2].reqclock
    /\ do_q[2].args[3] = 0
    /\ Len(pwm_q) = 1

(***************************************************************************)
(* A stepper and the endstop associated with it                            *)
(***************************************************************************)
InitHoming == InitDevices(FALSE, <<"D">>, TRUE, MaxStepCalls)

\* home_finalize, counted among the calls that reach the stepper
StepperHomeFinalize == Len(st_calls) < MaxStepCalls /\ HomeFinalize

NextHoming ==
    \/ \E sdir \in Dirs, clock \in StepClocks : SetNextStepDir(sdir, clock)
    \/ NoteStepperStop
    \/ StepperHomeFinalize

SpecHoming == InitHoming /\ [][NextHoming]_vars

MaxAdcCalls == 3

\* MCU_adc.ADC_MAX
AdcMax == 1024
\* the largest sample sum the firmware accepts (0xffff)
SampleCap == 65535
\* set_minmax: the value maxval takes when the caller passes None
DefaultMaxval == 65535

\* minval / maxval arguments: None, or a fraction num / den
NoneArg == [none |-> TRUE, num |-> 0, den |-> 1]
Frac(num, den) == [none |-> FALSE, num |-> num, den |-> den]

SampleTicksInputs == {3}
SampleCounts == {1, 8, 64}
MinvalInputs == {NoneArg, Frac(1, 2)}
MaxvalInputs == {NoneArg, Frac(1, 2), Frac(1, 1)}

\* int(val * max_adc) for a fraction val >= 0
FloorMul(val, max_adc) == (val.num * max_adc) \div val.den

\* min(cap, int(math.ceil(val * max_adc))) for a fraction val >= 0; the
\* product is not formed when it would exceed the cap
CeilMulCapped(val, max_adc, cap) ==
    IF val.num > 0 /\ max_adc > (cap * val.den) \div val.num
    THEN cap
    ELSE LET c == (val.num * max_adc + val.den - 1) \div val.den
         IN  IF c < cap THEN c ELSE cap

\* MCU_adc.set_minmax: the fields it stores
set_minmax(sample_ticks, sample_count, minval, maxval) ==
    LET minv == IF minval.none THEN Frac(0, 1) ELSE minval
        maxv == IF maxval.none THEN Frac(DefaultMaxval, 1) ELSE maxval
        max_adc == sample_count * AdcMax
    IN  [sample_ticks |-> sample_ticks,
         sample_count |-> sample_count,
         min_sample |-> FloorMul(minv, max_adc),
         max_sample |-> CeilMulCapped(maxv, max_adc, SampleCap)]

\* MCU_adc.set_minmax
SetMinMax(sample_ticks, sample_count, minval, maxval) ==
    /\ budget > 0
    /\ budget' = budget - 1
    /\ LET r == set_minmax(sample_ticks, sample_count, minval, maxval)
       IN  /\ adc_sample_ticks' = r.sample_ticks
           /\ adc_sample_count' = r.sample_count
           /\ adc_min_sample' = r.min_sample
           /\ adc_max_sample' = r.max_sample
    /\ adc_minmax' = << [sample_ticks |-> sample_ticks,
                         sample_count |-> sample_count,
                         minval |-> minval, maxval |-> maxval] >>
    /\ UNCHANGED <<adc_report_clock, adc_q>>
    /\ UNCHANGED <<last_clock, flushes, esvars, dovars, pwmvars>>
    /\ UNCHANGED <<cfgvars, shutvars, stepvars, runvars, timevars, pinvars,
                   fwvars>>

InitAdc == InitDevices(FALSE, <<"D">>, TRUE, MaxAdcCalls)

NextAdc ==
    \/ \E sample_ticks \in SampleTicksInputs, sample_count \in SampleCounts,
          minval \in MinvalInputs, maxval \in MaxvalInputs :
          SetMinMax(sample_ticks, sample_count, minval, maxval)
    \/ \E report_clock \in ReportClocks : QueryAnalogIn(report_clock)
    \/ \E d \in TickSteps : Tick(d)

SpecAdc == InitAdc /\ [][NextAdc]_vars

\* C16: set_minmax without minval and maxval stores min_sample = 0 and
\* max_sample = min(0xFFFF, sample_count * 1024) (minval = 0, maxval = 1); in
\* general min_sample = floor(minval * sample_count * 1024) and max_sample =
\* min(0xFFFF, ceil(maxval * sample_count * 1024)); and the next
\* query_analog_in sends these as min_value / max_value.
C16_AdcLimits ==
    /\ [](adc_minmax # <<>> =>
            LET a == adc_minmax[1]
                minv == IF a.minval.none THEN Frac(0, 1) ELSE a.minval
                maxv == IF a.maxval.none THEN Frac(1, 1) ELSE a.maxval
                max_adc == a.sample_count * 1024
                c == (maxv.num * max_adc + maxv.den - 1) \div maxv.den
            IN  /\ adc_min_sample = (minv.num * max_adc) \div minv.den
                /\ adc_max_sample = IF c < 65535 THEN c ELSE 65535)
    /\ [][adc_q' # adc_q =>
            LET m == adc_q'[Len(adc_q')]
            IN  /\ m.name = "query_analog_in"
                /\ m.args[6] = adc_min_sample
                /\ m.args[7] = adc_max_sample]_vars

(***************************************************************************)
(* create_pwm                                                              *)
(***************************************************************************)
\* the config commands in config_cmds that carry the oid of device i
ConfigCmdsOf(i) ==
    {config_cmds[j] : j \in {k \in 1..Len(config_cmds) :
                                config_cmds[k].oid = devices[i].oid}}

\* C20: create_pwm(pin, hard_cycle_ticks) constructs a hard PWM output
\* (config_pwm_out, cycle_ticks = hard_cycle_ticks) whenever hard_cycle_ticks
\* is non-zero, negative values included, and a soft PWM output
\* (config_soft_pwm_out, cycle_ticks = clock_freq / 10) when it is zero; it
\* never constructs a digital output.
C20_CreatePwmDispatch ==
    /\ Len(create_log) = Len(devices)
    /\ \A i \in 1..Len(create_log) :
          create_log[i].call = "create_pwm" =>
             LET ticks == create_log[i].arg
             IN  /\ devices[i].kind = IF ticks # 0 THEN "pwm_hard"
                                      ELSE "pwm_soft"
                 /\ ConfigCmdsOf(i) # {}
                 /\ \A c \in ConfigCmdsOf(i) :
                       /\ c.name = IF ticks # 0 THEN "config_pwm_out"
                                   ELSE "config_soft_pwm_out"
                       /\ c.args[1] = IF ticks # 0 THEN ticks
                                      ELSE clock_freq \div 10
    /\ \A i \in 1..Len(create_log) :
          create_log[i].call # "create_digital_out" =>
             devices[i].kind # "digital_out"

\* create_pwm was called with a negative and with a zero hard_cycle_ticks,
\* and build_config has run
C20_Witness ==
    /\ Len(create_log) = 2
    /\ create_log[1].call = "create_pwm" /\ create_log[1].arg < 0
    /\ create_log[2].call = "create_pwm" /\ create_log[2].arg = 0
    /\ devices[1].kind = "pwm_hard"
    /\ devices[2].kind = "pwm_soft"
    /\ builds > 0

(***************************************************************************)
(* Offline replay mode                                                     *)
(***************************************************************************)
IsHandshakeCmd(c) == c.name \in {"allocate_oids", "finalize_config"}

\* C13: after connect_file, build_config performs no commit handshake: it
\* sends nothing (neither get_config nor a config command), adds neither
\* allocate_oids nor finalize_config to config_cmds, never waits or takes the
\* CRC-mismatch exit, and constructs the synchroniser over all registered
\* steppers with a capacity of 500.
C13_OfflineBuildIsDummy ==
    /\ [](conn = "file" =>
            /\ wire = <<>>
            /\ pc = "idle"
            /\ config_crc = -1
            /\ \A i \in 1..Len(config_cmds) : ~IsHandshakeCmd(config_cmds[i]))
    /\ [][(conn = "file" /\ builds' # builds) =>
            /\ config_cmds' = config_cmds
            /\ wire' = wire
            /\ steppersync' = << [count |-> 500, queues |-> steppers] >>]_vars

\* an offline session that created a stepper and another device and then
\* ran build_config
C13_Witness ==
    /\ conn = "file"
    /\ builds > 0
    /\ Len(steppers) > 0
    /\ Len(config_cmds) = MaxOids
    /\ steppersync = << [count |-> 500, queues |-> steppers] >>

(***************************************************************************)
(* Host restarts: successive sessions against the same firmware            *)
(***************************************************************************)
MaxRuns == 2

\* the crc a firmware may already hold when the first session starts: none,
\* or one left by a host with some other configuration
FirmwareCrcInputs == {-1, 7}

\* the move_count the firmware reports
FirmwareMoveCount == 16

stale_config_cmds(cmds) == cmds

\* MCU.__init__: "self._config_cmds = []"
fresh_config_cmds(cmds) == <<>>

InitRestart ==
    /\ InitConfig
    /\ InitShutdown
    /\ StepperUnused
    /\ DevicesUnused
    /\ create_log = <<>>
    /\ built = <<>>
    /\ run = 1
    /\ prev = <<>>
    /\ fw_crc \in FirmwareCrcInputs
    /\ time_calls = <<>>
    /\ PinsUnused
    /\ FirmwareUnused

\* the host process ends and a new one constructs its MCU object from the
\* same configuration file; the firmware keeps running
Restart ==
    /\ run < MaxRuns
    /\ built # <<>>
    /\ run' = run + 1
    /\ prev' = built
    /\ built' = <<>>
    /\ create_log' = <<>>
    /\ conn' = "none"
    /\ output_file_mode' = FALSE
    /\ clock_freq' = 0
    /\ num_oids' = 0
    /\ config_cmds' = fresh_config_cmds(config_cmds)
    /\ config_crc' = -1
    /\ steppers' = <<>>
    /\ steppersync' = <<>>
    /\ devices' = <<>>
    /\ pc' = "idle"
    /\ sent_config' = FALSE
    /\ config_params' = <<>>
    /\ wire' = <<>>
    /\ builds' = 0
    /\ nresp' = 0
    /\ last_msg' = <<>>
    /\ paced' = TRUE
    /\ print_start_clock' = 0
    /\ UNCHANGED <<custom, fw_crc>>
    /\ UNCHANGED <<shutvars, stepvars, devvars, timevars, pinvars, fwvars>>

\* the create_* calls of a later session repeat those of the session before
Replays ==
    /\ builds = 0
    /\ run > 1 =>
          /\ Len(create_log') <= Len(prev[1].log)
          /\ create_log' = SubSeq(prev[1].log, 1, Len(create_log'))

\* build_config, called once per session after the create_* calls
BuildOnce ==
    /\ builds = 0
    /\ run > 1 => create_log = prev[1].log
    /\ BuildConfig

\* the crc of the finalize_config command among the commands cmds, if any
RECURSIVE FinalizedCrc(_, _)
FinalizedCrc(cmds, crc) ==
    IF cmds = <<>> THEN crc
    ELSE FinalizedCrc(Tail(cmds),
                      IF Head(cmds).name = "finalize_config"
                      THEN Head(cmds).args[1]
                      ELSE crc)

\* the firmware answers get_config with its own state, and is configured by
\* the finalize_config command the host sends
FirmwareResponse ==
    /\ HandleGetConfig([is_config |-> fw_crc # -1,
                        crc |-> IF fw_crc = -1 THEN 0 ELSE fw_crc,
                        move_count |-> IF fw_crc = -1 THEN 0
                                       ELSE FirmwareMoveCount])
    /\ fw_crc' = FinalizedCrc(SubSeq(wire', Len(wire) + 1, Len(wire')), fw_crc)
    /\ UNCHANGED fwvars

NextRestart ==
    \/ Connect
    \/ CreateStepper /\ Replays
    \/ CreateEndstop /\ Replays
    \/ CreateDigitalOut /\ Replays
    \/ CreatePwm /\ Replays
    \/ CreateAdc /\ Replays
    \/ BuildOnce
    \/ FirmwareResponse
    \/ Restart

SpecRestart == InitRestart /\ [][NextRestart]_vars

\* the session repeats the create_* calls the session before it made
SameCalls == built # <<>> /\ prev # <<>> /\ built[1].log = prev[1].log

GetConfigs(cmds) == Cardinality({i \in 1..Len(cmds) : cmds[i] = GetConfigCmd})

\* the `config` response of the firmware in its present state
FirmwareConfig ==
    [is_config |-> fw_crc # -1,
     crc |-> IF fw_crc = -1 THEN 0 ELSE fw_crc,
     move_count |-> IF fw_crc = -1 THEN 0 ELSE FirmwareMoveCount]

InitHandshake == InitRestart

\* a create_* call made before build_config
BeforeBuild == builds = 0

\* send_with_response sends get_config again while the handler has not
\* accepted a response; the handshake sees at most MaxResponses responses
RetryGetConfig ==
    /\ pc = "wait"
    /\ GetConfigs(wire) + (IF sent_config THEN 0 ELSE 1) < MaxResponses
    /\ wire' = Append(wire, GetConfigCmd)
    /\ UNCHANGED <<conn, output_file_mode, clock_freq, custom, num_oids,
                   config_cmds, config_crc, steppers, steppersync, devices, pc,
                   sent_config, config_params, builds, nresp, last_msg, paced,
                   print_start_clock>>
    /\ UNCHANGED <<shutvars, stepvars, devvars, runvars, timevars, pinvars,
                   fwvars>>

\* the firmware handles the next command the link brings: it answers
\* get_config with its state and is configured by finalize_config
FirmwareStep ==
    /\ fw_pos < Len(wire)
    /\ fw_pos' = fw_pos + 1
    /\ LET c == wire[fw_pos + 1]
       IN  /\ cfg_resp' = IF c = GetConfigCmd
                          THEN Append(cfg_resp, FirmwareConfig)
                          ELSE cfg_resp
           /\ fw_crc' = FinalizedCrc(<<c>>, fw_crc)
    /\ UNCHANGED <<es_fw_pos, es_fw_homing, es_resp>>
    /\ UNCHANGED <<create_log, built, run, prev>>
    /\ UNCHANGED <<cfgvars, shutvars, stepvars, devvars, timevars, pinvars>>

\* the link delivers the next `config` response to handle_get_config
DeliverConfig ==
    /\ cfg_resp # <<>>
    /\ HandleGetConfig(Head(cfg_resp))
    /\ cfg_resp' = Tail(cfg_resp)
    /\ UNCHANGED <<fw_pos, fw_crc, es_fw_pos, es_fw_homing, es_resp>>

\* a `config` response that arrives when no handler is registered is dropped
DropConfig ==
    /\ cfg_resp # <<>>
    /\ pc # "wait"
    /\ cfg_resp' = Tail(cfg_resp)
    /\ UNCHANGED <<fw_pos, es_fw_pos, es_fw_homing, es_resp>>
    /\ UNCHANGED <<cfgvars, shutvars, stepvars, devvars, runvars, timevars,
                   pinvars>>

NextHandshake ==
    \/ Connect
    \/ CreateStepper /\ BeforeBuild
    \/ CreateDigitalOut /\ BeforeBuild
    \/ BuildOnce
    \/ RetryGetConfig
    \/ FirmwareStep
    \/ DeliverConfig
    \/ DropConfig

\* the link delivers what is sent and the firmware handles what it receives
FairLink == WF_vars(FirmwareStep) /\ WF_vars(DeliverConfig)

SpecHandshake == InitHandshake /\ [][NextHandshake]_vars /\ FairLink

\* C22: with a link that delivers and a firmware that answers every
\* get_config and reports is_config=true once it has handled
\* finalize_config, a build_config that waits in _send_config eventually
\* leaves the wait, either configured, with the Stepper Synchroniser
\* constructed, or in the fatal exit.
C22_HandshakeTerminates ==
    (pc = "wait") ~> (pc = "exit" \/ (pc = "idle" /\ steppersync # <<>>))

\* C22 witness: the host sent its config commands, a get_config it had sent
\* again was answered with is_config=false after that, and the handshake
\* still ended configured by the firmware's later answer
C22_Witness ==
    /\ pc = "idle" /\ builds = 1
    /\ steppersync # <<>>
    /\ fw_crc = config_crc
    /\ GetConfigs(wire) = 3
    /\ wire[2] = GetConfigCmd
    /\ fw_pos = Len(wire)
    /\ cfg_resp = <<>>
    /\ Len(devices) > 0

(***************************************************************************)
(* parse_pin_extras as a function of its arguments                         *)
(***************************************************************************)
MaxPinLen == 3

\* the characters of a pin description: the two markers, a blank, and the
\* characters pin names are made of
PinChars == {"^", "!", " ", "A", "B"}
NameChars == {"A", "B"}

\* the strings over chars of length at most n
StringsUpTo(chars, n) == UNION {[1..k -> chars] : k \in 0..n}

\* pin names: non-empty, made of name characters
PinNames == StringsUpTo(NameChars, MaxPinLen) \ {<<>>}

InitPins ==
    /\ InitConfig
    /\ InitShutdown
    /\ StepperUnused
    /\ DevicesUnused
    /\ time_calls = <<>>
    /\ create_log = <<>>
    /\ built = <<>>
    /\ run = 1
    /\ prev = <<>>
    /\ fw_crc = -1
    /\ pin_in \in StringsUpTo(PinChars, MaxPinLen)
    /\ pin_can_pullup \in BOOLEAN
    /\ pin_out = <<>>
    /\ FirmwareUnused

\* a device constructor parses its pin description
ParsePin ==
    /\ pin_out = <<>>
    /\ pin_out' = << parse_pin_extras(pin_in, pin_can_pullup) >>
    /\ UNCHANGED <<pin_in, pin_can_pullup>>
    /\ UNCHANGED <<cfgvars, shutvars, stepvars, devvars, runvars, timevars,
                   fwvars>>

NextPins == ParsePin

SpecPins == InitPins /\ [][NextPins]_vars

Parsed(pin, pullup, invert) ==
    pin_out = << [pin |-> pin, pullup |-> pullup, invert |-> invert] >>

\* C15: for a pin name P, with pull-ups accepted "^!P" parses to (P, 1, 0),
\* "!P" to (P, 0, 1), "^P" to (P, 1, 1) and "P" to (P, 0, 0); without
\* pull-ups a leading "^" stays part of the pin name with pullup = 0 (and
\* hides a "!" behind it), and a "!" in front of the "^" leaves the "^" in
\* the pin name.
C15_PinParsing ==
    pin_out # <<>> =>
      \A P \in PinNames :
        /\ pin_can_pullup =>
              /\ pin_in = <<"^", "!">> \o P => Parsed(P, 1, 0)
              /\ pin_in = <<"!">> \o P => Parsed(P, 0, 1)
              /\ pin_in = <<"^">> \o P => Parsed(P, 1, 1)
              /\ pin_in = P => Parsed(P, 0, 0)
              /\ pin_in = <<"!", "^">> \o P => Parsed(<<"^">> \o P, 0, 1)
        /\ ~pin_can_pullup =>
              /\ pin_in = <<"^", "!">> \o P => Parsed(<<"^", "!">> \o P, 0, 0)
              /\ pin_in = <<"!">> \o P => Parsed(P, 0, 1)
              /\ pin_in = <<"^">> \o P => Parsed(<<"^">> \o P, 0, 0)
              /\ pin_in = P => Parsed(P, 0, 0)

\* "^!A" has been parsed for a peripheral that accepts pull-ups
C15_Witness ==
    /\ pin_can_pullup
    /\ pin_in = <<"^", "!", "A">>
    /\ Parsed(<<"A">>, 1, 0)

====
